---- MODULE Spec2Model ----
(***************************************************************************)
(* Model of the Crypto-Futures launcher (launcher.py, enhanced_launcher.py) *)
(* as a chain of launcher processes over a project directory: entrypoint   *)
(* resolution, provisioning, packaging, relaunch in child mode and direct  *)
(* execution of the resolved entrypoint.                                   *)
(***************************************************************************)
EXTENDS Integers, Sequences, FiniteSets, TLC

VARIABLES isWindows, venv, hasReq, dist, fs, procs, resolved

vars == <<isWindows, venv, hasReq, dist, fs, procs, resolved>>

\* ------------------------------------------------------------------ bounds
\* Longest chain of launcher processes followed.
MaxDepth == 3
\* Exit codes of the project entrypoint and of the packaging tool: 0..MaxCode.
MaxCode == 2
\* Longest "entrypoints" list of launcher_config.json enumerated.
MaxEntries == 2

\* ------------------------------------------------------- files and configs
None == "None"
NoCode == 0 - 1

\* The two directories of a run: the working directory, which holds the
\* launcher script, and another directory CRYPTO_PROJECT_ROOT may name.
Dirs == {"A", "B"}
Cwd == "A"

\* Paths below a directory.  NonPy are the names not ending in ".py".
Paths == {"main.py", "app.py", "bootstrap.py", "src/start.py", "launcher.py",
          "notes.txt"}
NonPy == {"notes.txt"}
LauncherName == "launcher.py"

\* What is at a path: nothing, a directory, or a regular file whose first 2048
\* characters hold no marker ("plain": also an unreadable file, or one whose
\* marker lies beyond the prefix read), the text __name__ == '__main__'
\* ("sq_main"), the text "__main__" in double quotes ("dq_main"), or the text
\* def main( ("def_main").
FileStates == {"absent", "dir", "plain", "sq_main", "dq_main", "def_main"}

\* launcher_config.json: absent, unreadable, not JSON, or a JSON value.
EmptyDict == [type |-> "object", key |-> "missing", entrypoints |-> <<>>]

CfgAbsent == [state |-> "absent", value |-> EmptyDict]
CfgUnreadable == [state |-> "unreadable", value |-> EmptyDict]
CfgMalformed == [state |-> "malformed", value |-> EmptyDict]
CfgJson(v) == [state |-> "json", value |-> v]
JsonNonObject(t) == [type |-> t, key |-> "missing", entrypoints |-> <<>>]
JsonNoKey == EmptyDict
JsonNullKey == [type |-> "object", key |-> "null", entrypoints |-> <<>>]
JsonList(s) == [type |-> "object", key |-> "list", entrypoints |-> s]

\* ------------------------------------------------------ entrypoint resolver
\* load_launcher_config: {} when the file is absent or open/json.load raises,
\* else whatever JSON value the file holds.
load_launcher_config(cfg) ==
  IF cfg.state = "absent" THEN EmptyDict
  ELSE IF cfg.state \in {"unreadable", "malformed"} THEN EmptyDict
  ELSE cfg.value

\* cfg.get(...) exists only on a dict: any other JSON value raises
\* AttributeError out of find_entrypoint.
cfg_get_raises(v) == v.type # "object"

\* cfg.get("entrypoints", []) or []
cfg_entrypoints(v) == IF v.key = "list" THEN v.entrypoints ELSE <<>>

\* p.exists() and p.is_file()
is_regular(files, p) == p \in DOMAIN files /\ files[p] \notin {"absent", "dir"}

\* The first element of seq that is a regular file, else None.
first_regular(files, seq) ==
  LET hits == {i \in 1..Len(seq) : is_regular(files, seq[i])}
  IN IF hits = {} THEN None
     ELSE seq[CHOOSE i \in hits : \A j \in hits : i <= j]

Conventional == <<"main.py", "app.py", "run.py", "start.py", "bootstrap.py">>

\* The markers each implementation looks for in the first 2048 characters.
LauncherMarkers == {"sq_main", "dq_main", "def_main"}
EnhancedMarkers == {"sq_main", "def_main"}

\* discover_entrypoint_by_heuristics: the files the walk may return first
\* (walk order is the operating system's); empty when it returns None.
discover_entrypoint_by_heuristics(files, markers) ==
  {p \in DOMAIN files : p \notin NonPy /\ files[p] \in markers}

find_entrypoint_raises(d) == cfg_get_raises(load_launcher_config(d.cfg))

\* find_entrypoint when it does not raise: the set of values it may return.
find_entrypoint_swapped(d, markers) ==
  LET byConv == first_regular(d.files, Conventional)
      byCfg == first_regular(d.files, cfg_entrypoints(load_launcher_config(d.cfg)))
      found == discover_entrypoint_by_heuristics(d.files, markers)
  IN IF byConv # None THEN {byConv}
     ELSE IF byCfg # None THEN {byCfg}
     ELSE IF found # {} THEN found
     ELSE {None}

find_entrypoint(d, markers) ==
  LET byCfg == first_regular(d.files, cfg_entrypoints(load_launcher_config(d.cfg)))
      byConv == first_regular(d.files, Conventional)
      found == discover_entrypoint_by_heuristics(d.files, markers)
  IN IF byCfg # None THEN {byCfg}
     ELSE IF byConv # None THEN {byConv}
     ELSE IF found # {} THEN found
     ELSE {None}

\* ------------------------------------------- inputs of the resolver checks
EntryNames == {"src/start.py", "main.py", "notes.txt"}

EntryLists == UNION {[1..n -> EntryNames] : n \in 0..MaxEntries}

Configs ==
  {CfgAbsent, CfgUnreadable, CfgMalformed, CfgJson(JsonNoKey), CfgJson(JsonNullKey)}
    \cup {CfgJson(JsonNonObject(t)) : t \in {"array", "null", "number"}}
    \cup {CfgJson(JsonList(s)) : s \in EntryLists}

\* The conventional names are found by name whatever they hold, notes.txt is
\* never read: their content is not enumerated.
FileChoices(p) ==
  IF p \in {"main.py", "app.py", "bootstrap.py"} THEN {"absent", "dir", "plain"}
  ELSE IF p \in NonPy THEN {"absent", "def_main"}
  ELSE FileStates

Trees == {f \in [Paths -> FileStates] : \A p \in Paths : f[p] \in FileChoices(p)}

EmptyTree == [p \in Paths |-> "absent"]
EmptyDir == [cfg |-> CfgAbsent, files |-> EmptyTree]

Pending == "pending"
Raised == "raised"

ResolveInit ==
  /\ isWindows = FALSE
  /\ venv = "absent"
  /\ hasReq = FALSE
  /\ dist = "absent"
  /\ procs = <<>>
  /\ \E c \in Configs, t \in Trees :
       fs = [d \in Dirs |-> IF d = Cwd THEN [cfg |-> c, files |-> t] ELSE EmptyDir]
  /\ resolved = [launcher |-> Pending, enhanced |-> Pending]

\* launcher.find_entrypoint(root)
ResolveLauncher ==
  /\ resolved.launcher = Pending
  /\ \E r \in (IF find_entrypoint_raises(fs[Cwd]) THEN {Raised}
               ELSE find_entrypoint(fs[Cwd], LauncherMarkers)) :
       resolved' = [resolved EXCEPT !.launcher = r]
  /\ UNCHANGED <<isWindows, venv, hasReq, dist, fs, procs>>

\* enhanced_launcher.find_entrypoint(root)
ResolveEnhanced ==
  /\ resolved.enhanced = Pending
  /\ \E r \in (IF find_entrypoint_raises(fs[Cwd]) THEN {Raised}
               ELSE find_entrypoint(fs[Cwd], EnhancedMarkers)) :
       resolved' = [resolved EXCEPT !.enhanced = r]
  /\ UNCHANGED <<isWindows, venv, hasReq, dist, fs, procs>>

ResolveNext == ResolveLauncher \/ ResolveEnhanced

SpecResolve == ResolveInit /\ [][ResolveNext]_vars

\* ------------------------------------------------------ launcher processes
\* The environment a process reads: CRYPTO_LAUNCHER_CHILD and
\* CRYPTO_PROJECT_ROOT, each possibly unset.
Unset == "unset"
FlagValues == {Unset, "0", "1"}
RootValues == {Unset} \cup Dirs

\* os.environ.get("CRYPTO_LAUNCHER_CHILD", "0") == "1"
IsChildModeMisread(env) == env.child = "true"

IsChildMode(env) == (IF env.child = Unset THEN "0" ELSE env.child) = "1"

\* Path(os.environ.get("CRYPTO_PROJECT_ROOT", str(Path.cwd())))
ProjectRoot(env) == IF env.root = Unset THEN Cwd ELSE env.root

\* child_env = os.environ.copy() with the two variables set
child_env_unflagged(env) == [env EXCEPT !.root = ProjectRoot(env)]

child_env(env) == [env EXCEPT !.child = "1", !.root = ProjectRoot(env)]

\* The steps of main that provision or package.
ProvisionSteps ==
  {"ensure_venv", "install_requirements", "ensure_pyinstaller", "build_executable"}

ArgLists == {<<>>, <<"--fast">>}
ExitCodes == 0..MaxCode

\* A launcher process at the top of main.
NewProc(env, argv, scriptDir, via, packaged) ==
  [env |-> env, argv |-> argv, scriptDir |-> scriptDir, via |-> via,
   packaged |-> packaged, pc |-> "start", status |-> "running",
   exit |-> NoCode, crashAt |-> "", steps |-> <<>>,
   resolvedIn |-> "", entry |-> None, python |-> "", cmd |-> <<>>,
   runs |-> 0, ret |-> NoCode, entryProc |-> "none", entryCode |-> NoCode,
   built |-> FALSE, distAtBuild |-> "", toolRuns |-> 0, toolCode |-> NoCode,
   buildResult |-> FALSE, fellBack |-> FALSE, relaunched |-> FALSE,
   signals |-> <<>>, liveAtInterrupt |-> FALSE]

\* The directories a run may start from.  The working directory holds the
\* launcher script, whose own text matches the heuristic (launcher.py:48).
Tree(a) == [p \in Paths |-> IF p \in DOMAIN a THEN a[p] ELSE "absent"]

CwdStates ==
  {[cfg |-> CfgAbsent, files |-> Tree("launcher.py" :> "sq_main")],
   [cfg |-> CfgAbsent,
    files |-> Tree("launcher.py" :> "sq_main" @@ "main.py" :> "plain")],
   [cfg |-> CfgJson(JsonList(<<"src/start.py">>)),
    files |-> Tree("launcher.py" :> "sq_main" @@ "main.py" :> "plain"
                   @@ "src/start.py" :> "dq_main")],
   [cfg |-> CfgJson(JsonNonObject("array")),
    files |-> Tree("launcher.py" :> "sq_main" @@ "app.py" :> "plain")],
   [cfg |-> CfgMalformed,
    files |-> Tree("launcher.py" :> "sq_main" @@ "src/start.py" :> "def_main")]}

OtherStates ==
  {EmptyDir,
   [cfg |-> CfgAbsent, files |-> Tree("app.py" :> "plain")],
   [cfg |-> CfgJson(JsonNoKey), files |-> Tree("src/start.py" :> "def_main")],
   [cfg |-> CfgJson(JsonNonObject("null")), files |-> Tree("main.py" :> "plain")]}

\* .venv: absent, a directory without an interpreter, or a working environment.
VenvStates == {"absent", "empty", "ok"}
\* dist: absent, an empty directory, a directory with entries but no
\* CryptoFuturesLauncher.exe ("other"), one holding it ("exe"), or a
\* regular file named dist ("file").
DistStates == {"absent", "emptydir", "other", "exe", "file"}

Init ==
  /\ isWindows \in BOOLEAN
  /\ venv \in VenvStates
  /\ hasReq \in BOOLEAN
  /\ dist \in DistStates
  /\ \E a \in CwdStates, b \in OtherStates :
       fs = [d \in Dirs |-> IF d = Cwd THEN a ELSE b]
  /\ \E c \in FlagValues, r \in RootValues, args \in ArgLists :
       procs = <<NewProc([child |-> c, root |-> r], args, Cwd, "user", FALSE)>>
  /\ resolved = [launcher |-> Pending, enhanced |-> Pending]

Running(i) == i \in 1..Len(procs) /\ procs[i].status = "running"
At(i, pc) == Running(i) /\ procs[i].pc = pc

Frame == UNCHANGED <<isWindows, venv, hasReq, dist, fs, resolved>>

\* An uncaught exception: traceback, exit status 1.
Crashed(p) == [p EXCEPT !.status = "crashed", !.exit = 1, !.crashAt = p.pc]
\* sys.exit(code)
Exited(p, code) == [p EXCEPT !.status = "exited", !.exit = code, !.pc = "done"]
Step(p, name) == [p EXCEPT !.steps = Append(p.steps, name)]

\* The entrypoint found under dir, ready to run with python; exit 1 when
\* none is found; the exception of find_entrypoint propagates.
Resolved(p, dir, python) ==
  IF find_entrypoint_raises(fs[dir]) THEN {Crashed(p)}
  ELSE {IF e = None THEN Exited(p, 1)
        ELSE [p EXCEPT !.entry = e, !.resolvedIn = dir, !.python = python,
                       !.pc = "run_entry"] :
          e \in find_entrypoint(fs[dir], LauncherMarkers)}

\* main, child mode (launcher.py:118-132)
ChildModeResolve(i) ==
  /\ At(i, "start")
  /\ IsChildMode(procs[i].env)
  /\ \E q \in Resolved(procs[i], ProjectRoot(procs[i].env),
                       IF venv = "ok" THEN "venv" ELSE "sys") :
       procs' = [procs EXCEPT ![i] = q]
  /\ Frame

\* main, non-child mode: entry = find_entrypoint(script_dir) (launcher.py:135-139)
BootstrapResolve(i) ==
  /\ At(i, "start")
  /\ ~IsChildMode(procs[i].env)
  /\ procs' = [procs EXCEPT ![i] =
       IF find_entrypoint_raises(fs[procs[i].scriptDir]) THEN Crashed(@)
       ELSE [@ EXCEPT !.pc = "ensure_venv"]]
  /\ Frame

\* ensure_venv (launcher.py:72-81, 141-142)
EnsureVenv(i) ==
  /\ At(i, "ensure_venv")
  /\ venv' = IF venv = "absent" THEN "ok" ELSE venv
  /\ procs' = [procs EXCEPT ![i] =
       [Step(@, "ensure_venv") EXCEPT !.pc = "install_requirements"]]
  /\ UNCHANGED <<isWindows, hasReq, dist, fs, resolved>>

\* subprocess.run([python_exe, ...]) raises FileNotFoundError when the
\* interpreter is missing.
PipRaises == venv # "ok"

\* install_requirements and its warning (launcher.py:87-92, 144-145)
InstallRequirements(i) ==
  /\ At(i, "install_requirements")
  /\ IF ~hasReq
       THEN procs' = [procs EXCEPT ![i] =
              [Step(@, "install_requirements") EXCEPT !.pc = "ensure_pyinstaller"]]
       ELSE IF PipRaises
         THEN procs' = [procs EXCEPT ![i] = Crashed(Step(@, "install_requirements"))]
         ELSE \E ok \in BOOLEAN :
                procs' = [procs EXCEPT ![i] =
                  [Step(@, "install_requirements") EXCEPT
                     !.pc = "ensure_pyinstaller"]]
  /\ Frame

\* ensure_pyinstaller and its warning (launcher.py:94-96, 147-148)
EnsurePyinstaller(i) ==
  /\ At(i, "ensure_pyinstaller")
  /\ IF PipRaises
       THEN procs' = [procs EXCEPT ![i] = Crashed(Step(@, "ensure_pyinstaller"))]
       ELSE \E ok \in BOOLEAN :
              procs' = [procs EXCEPT ![i] =
                [Step(@, "ensure_pyinstaller") EXCEPT !.pc = "dist_check"]]
  /\ Frame

\* dist_exe.exists()
DistExeExists == dist = "exe"

\* The branch on the packaged executable and the platform (launcher.py:150-153, 182)
DistCheck(i) ==
  /\ At(i, "dist_check")
  /\ procs' = [procs EXCEPT ![i].pc =
       IF DistExeExists THEN "relaunch"
       ELSE IF ~isWindows THEN "direct_resolve"
       ELSE "build"]
  /\ Frame

\* Non-Windows without a packaged executable (launcher.py:154-161)
DirectResolve(i) ==
  /\ At(i, "direct_resolve")
  /\ \E q \in Resolved(procs[i], ProjectRoot(procs[i].env), "venv") :
       procs' = [procs EXCEPT ![i] = q]
  /\ Frame

\* dist_dir.exists() and any(dist_dir.iterdir())
dist_has_exe(d) == d = "exe"

dist_non_empty(d) == d \in {"other", "exe"}

\* iterdir() on something that is not a directory raises NotADirectoryError.
dist_iterdir_raises(d) == d = "file"

\* build_executable (launcher.py:98-106), called at launcher.py:163
BuildExecutable(i) ==
  /\ At(i, "build")
  /\ IF dist_iterdir_raises(dist)
       THEN /\ procs' = [procs EXCEPT ![i] = Crashed(Step(@, "build_executable"))]
            /\ UNCHANGED dist
       ELSE IF dist_non_empty(dist)
         THEN /\ procs' = [procs EXCEPT ![i] =
                   [Step(@, "build_executable") EXCEPT
                      !.built = TRUE, !.distAtBuild = dist, !.buildResult = TRUE,
                      !.pc = "after_build"]]
              /\ UNCHANGED dist
         ELSE \E code \in ExitCodes :
                /\ procs' = [procs EXCEPT ![i] =
                     [Step(@, "build_executable") EXCEPT
                        !.built = TRUE, !.distAtBuild = dist,
                        !.toolRuns = @ + 1, !.toolCode = code,
                        !.buildResult = (code = 0), !.pc = "after_build"]]
                /\ dist' = IF code = 0 THEN "exe" ELSE dist
  /\ UNCHANGED <<isWindows, venv, hasReq, fs, resolved>>

\* After build_executable returned (launcher.py:163-178)
AfterBuild(i) ==
  /\ At(i, "after_build")
  /\ procs' = [procs EXCEPT ![i] =
       IF ~@.buildResult THEN [@ EXCEPT !.pc = "fallback_resolve"]
       ELSE IF ~DistExeExists THEN Exited(@, 1)
       ELSE [@ EXCEPT !.pc = "relaunch"]]
  /\ Frame

\* The fallback after a failed build (launcher.py:164-170)
FallbackResolve(i) ==
  /\ At(i, "fallback_resolve")
  /\ \E q \in Resolved([procs[i] EXCEPT !.fellBack = TRUE],
                       ProjectRoot(procs[i].env), "venv") :
       procs' = [procs EXCEPT ![i] = q]
  /\ Frame

\* subprocess.run([dist_exe], env=child_env) (launcher.py:172-180, 184-188):
\* the packaged launcher starts with the child's environment and no arguments.
Relaunch(i) ==
  /\ At(i, "relaunch")
  /\ Len(procs) < MaxDepth
  /\ i = Len(procs)
  /\ procs' = Append([procs EXCEPT ![i].pc = "wait_relaunch", ![i].relaunched = TRUE],
                     NewProc(child_env(procs[i].env), <<>>, procs[i].scriptDir,
                             "relaunch", TRUE))
  /\ Frame

\* cmd = [python_exe, entry] + extra_args (launcher.py:109-111)
run_project_entry_cmd(python, entry, extra) == <<python, entry>> \o extra

\* The launcher script found as the entrypoint is the launcher again.
IsLauncherScript(e) == e = LauncherName

\* run_project_entry: subprocess.run(cmd) (launcher.py:108-112).  The new
\* process inherits the environment and the working directory.
RunProjectEntry(i) ==
  /\ At(i, "run_entry")
  /\ LET p == procs[i]
         cmd == run_project_entry_cmd(p.python, p.entry, p.argv)
     IN IF IsLauncherScript(p.entry)
          THEN /\ Len(procs) < MaxDepth
               /\ i = Len(procs)
               /\ procs' = Append(
                    [procs EXCEPT ![i].pc = "wait_launcher", ![i].cmd = cmd,
                                  ![i].runs = @ + 1],
                    NewProc(p.env, SubSeq(cmd, 3, Len(cmd)), p.resolvedIn,
                            "entry", p.packaged))
          ELSE procs' = [procs EXCEPT ![i].pc = "wait_entry", ![i].cmd = cmd,
                                      ![i].runs = @ + 1, ![i].entryProc = "live"]
  /\ Frame

\* sys.exit(ret) with ret the return code of the entrypoint (launcher.py:131-132,
\* 160-161, 168-169)
exit_after_run_flattened(ret) == IF ret = 0 THEN 0 ELSE 1

exit_after_run(ret) == ret

\* The project's entrypoint exits; the launcher waiting for it exits with its code.
EntryExits(i) ==
  /\ i \in 1..Len(procs)
  /\ procs[i].entryProc = "live"
  /\ \E c \in ExitCodes :
       procs' = [procs EXCEPT ![i] =
         IF @.status = "running"
           THEN [Exited(@, exit_after_run(c)) EXCEPT
                   !.ret = c, !.entryProc = "exited", !.entryCode = c]
           ELSE [@ EXCEPT !.entryProc = "exited", !.entryCode = c]]
  /\ Frame

\* sys.exit(0) after the packaged launcher returned (launcher.py:180-181, 188-189)
exit_after_relaunch_propagated(ret) == ret

exit_after_relaunch(ret) == 0

Finished(i) == i \in 1..Len(procs) /\ procs[i].status \in {"exited", "crashed"}

\* subprocess.run returns for a launcher started by this one: exit 0 after a
\* relaunch (launcher.py:180-181, 188-189), else the child's code.
LauncherReturns(i) ==
  /\ Running(i)
  /\ procs[i].pc \in {"wait_launcher", "wait_relaunch"}
  /\ Finished(i + 1)
  /\ procs' = [procs EXCEPT ![i] =
       IF @.pc = "wait_relaunch" THEN Exited(@, exit_after_relaunch(procs[i + 1].exit))
       ELSE [Exited(@, exit_after_run(procs[i + 1].exit)) EXCEPT
               !.ret = procs[i + 1].exit]]
  /\ Frame

Waiting(i) ==
  Running(i) /\ procs[i].pc \in {"wait_entry", "wait_launcher", "wait_relaunch"}

\* The process this one started is still running.
ChildLive(i) ==
  \/ procs[i].entryProc = "live"
  \/ /\ procs[i].pc \in {"wait_launcher", "wait_relaunch"}
     /\ Running(i + 1)

\* The operator interrupts the launcher they started while it waits in
\* subprocess.run (launcher.py:112, 180, 188).  main installs no handler and
\* has no try/finally: the exception leaves main, and the launcher sends its
\* child nothing.  What becomes of the child is the library's and the
\* platform's doing: killed outright, or left running.
Interrupt ==
  /\ Waiting(1)
  /\ \E killed \in BOOLEAN :
       LET me == [procs[1] EXCEPT
                    !.status = "interrupted",
                    !.liveAtInterrupt = ChildLive(1),
                    !.signals = IF killed /\ ChildLive(1) THEN <<"kill">> ELSE <<>>,
                    !.entryProc = IF killed /\ @ = "live" THEN "killed" ELSE @]
           ps == [procs EXCEPT ![1] = me]
       IN procs' = IF killed /\ procs[1].pc # "wait_entry" /\ Running(2)
                     THEN [ps EXCEPT ![2].status = "killed"]
                     ELSE ps
  /\ Frame

Next ==
  \/ \E i \in 1..Len(procs) : ChildModeResolve(i)
  \/ \E i \in 1..Len(procs) : BootstrapResolve(i)
  \/ \E i \in 1..Len(procs) : EnsureVenv(i)
  \/ \E i \in 1..Len(procs) : InstallRequirements(i)
  \/ \E i \in 1..Len(procs) : EnsurePyinstaller(i)
  \/ \E i \in 1..Len(procs) : DistCheck(i)
  \/ \E i \in 1..Len(procs) : DirectResolve(i)
  \/ \E i \in 1..Len(procs) : BuildExecutable(i)
  \/ \E i \in 1..Len(procs) : AfterBuild(i)
  \/ \E i \in 1..Len(procs) : FallbackResolve(i)
  \/ \E i \in 1..Len(procs) : Relaunch(i)
  \/ \E i \in 1..Len(procs) : RunProjectEntry(i)
  \/ \E i \in 1..Len(procs) : EntryExits(i)
  \/ \E i \in 1..Len(procs) : LauncherReturns(i)
  \/ Interrupt

Spec == Init /\ [][Next]_vars

\* ------------------------------------------------------------------ claims
Procs == 1..Len(procs)
Terminated(p) == p.status \in {"exited", "crashed"}

\* C1: a launcher started with CRYPTO_LAUNCHER_CHILD = "1" performs no
\* provisioning or packaging step and no relaunch; it resolves the entrypoint
\* under the directory CRYPTO_PROJECT_ROOT names, and when it ends it has
\* either run that entrypoint once or exited 1 without running anything.
ChildModeSkipsProvisioning ==
  \A i \in Procs :
    LET p == procs[i]
        root == IF p.env.root \in Dirs THEN p.env.root ELSE Cwd
    IN p.env.child = "1" =>
         /\ p.steps = <<>>
         /\ p.toolRuns = 0
         /\ ~p.built
         /\ ~p.relaunched
         /\ p.resolvedIn \in {"", root}
         /\ Terminated(p) =>
              \/ /\ p.runs = 1
                 /\ p.resolvedIn = root
                 /\ p.entry \in find_entrypoint(fs[root], LauncherMarkers) \ {None}
                 /\ p.cmd[2] = p.entry
              \/ /\ p.runs = 0
                 /\ p.exit = 1

ChildModeRanUnderOtherRoot ==
  \E i \in Procs :
    /\ procs[i].env = [child |-> "1", root |-> "B"]
    /\ procs[i].via = "user"
    /\ procs[i].status = "exited"
    /\ procs[i].runs = 1
    /\ procs[i].resolvedIn = "B"

\* The code the process started as the entrypoint ended with.
EntryResult(i) ==
  IF procs[i].entryProc = "exited" THEN procs[i].entryCode ELSE procs[i + 1].exit

\* C2: a launcher that ran the entrypoint itself (child mode, non-Windows
\* without a packaged executable, or the fallback after a failed build) ran
\* it exactly once, with its own arguments appended, and exits with exactly
\* the code the entrypoint ended with.
DirectExecutionPropagatesExit ==
  \A i \in Procs :
    LET p == procs[i]
    IN p.status = "exited" =>
         /\ p.entry # None => p.runs = 1
         /\ p.runs > 0 =>
              /\ p.runs = 1
              /\ ~p.relaunched
              /\ p.cmd = <<p.python, p.entry>> \o p.argv
              /\ p.exit = EntryResult(i)

FallbackPropagatedExitTwo ==
  \E i \in Procs :
    /\ procs[i].fellBack
    /\ procs[i].status = "exited"
    /\ procs[i].runs = 1
    /\ procs[i].argv # <<>>
    /\ procs[i].entryCode = 2
    /\ procs[i].exit = 2

\* C3 as stated: whenever build_executable reported success the launcher
\* relaunched the packaged executable and exited 0, and it fell back to the
\* entrypoint only after a reported failure.
BuildSuccessAlwaysRelaunches ==
  \A i \in Procs :
    LET p == procs[i]
    IN /\ (p.built /\ p.buildResult /\ p.status = "exited") =>
            (p.relaunched /\ p.exit = 0)
       /\ p.fellBack => (p.built /\ ~p.buildResult)

\* C3 amended: after a reported success the launcher relaunches the packaged
\* executable, with the child flag "1" and the project root in its
\* environment, and exits 0 whatever the relaunched process returned, when
\* dist/CryptoFuturesLauncher.exe exists; when it still does not exist the
\* launcher exits 1 without relaunching; it falls back to the entrypoint
\* only after a reported failure.
BuildSuccessRelaunchesWhenExeExists ==
  \A i \in Procs :
    LET p == procs[i]
    IN /\ (p.built /\ p.buildResult /\ p.status = "exited" /\ dist = "exe") =>
            /\ p.relaunched
            /\ p.exit = 0
            /\ p.runs = 0
            /\ i < Len(procs)
            /\ procs[i + 1].via = "relaunch"
            /\ procs[i + 1].env.child = "1"
            /\ procs[i + 1].env.root = (IF p.env.root \in Dirs THEN p.env.root ELSE Cwd)
       /\ (p.built /\ p.buildResult /\ p.status = "exited" /\ dist # "exe") =>
            /\ ~p.relaunched
            /\ p.runs = 0
            /\ p.exit = 1
       /\ p.fellBack => (p.built /\ ~p.buildResult)

RelaunchSwallowedFailure ==
  \E i \in Procs :
    /\ procs[i].built
    /\ procs[i].buildResult
    /\ procs[i].toolRuns = 1
    /\ procs[i].relaunched
    /\ procs[i].status = "exited"
    /\ procs[i].exit = 0
    /\ i < Len(procs)
    /\ procs[i + 1].status = "exited"
    /\ procs[i + 1].exit = 2

\* C4: every launcher process below a relaunch, directly or through further
\* launchers, has CRYPTO_LAUNCHER_CHILD = "1" and never provisions, packages
\* or relaunches.
PackagedNeverBootstraps ==
  \A i \in Procs :
    LET p == procs[i]
    IN (p.via = "relaunch" \/ p.packaged) =>
         /\ p.env.child = "1"
         /\ p.steps = <<>>
         /\ p.toolRuns = 0
         /\ ~p.relaunched

PackagedGrandchildRan ==
  \E i \in Procs :
    /\ i >= 3
    /\ procs[i].via = "entry"
    /\ procs[i].packaged
    /\ procs[i - 1].via = "relaunch"
    /\ procs[i].pc # "start"

\* C5: with launcher_config.json absent, unreadable, malformed, or holding
\* any JSON value without an "entrypoints" key (a JSON value that is no
\* object included), find_entrypoint does not raise and returns what the
\* fixed filename list gives when one of its names is a regular file.
LacksEntrypointsKey(cfg) == cfg.state # "json" \/ cfg.value.key = "missing"

MissingKeyFallsThrough ==
  LET d == fs[Cwd]
      byName == first_regular(d.files, Conventional)
  IN LacksEntrypointsKey(d.cfg) =>
       \A r \in {resolved.launcher, resolved.enhanced} :
         /\ r # Raised
         /\ (r # Pending /\ byName # None) => r = byName

\* C6: find_entrypoint returns the first listed config entry that is a
\* regular file; failing that the first of main.py, app.py, run.py, start.py,
\* bootstrap.py that is a regular file; failing that a file the heuristic
\* scan accepts; and nothing exactly when all three find nothing.
InPriorityOrder(r, markers) ==
  LET d == fs[Cwd]
      Reg(q) == q \in Paths /\ d.files[q] \notin {"absent", "dir"}
      listed == IF d.cfg.state = "json" /\ d.cfg.value.key = "list"
                  THEN d.cfg.value.entrypoints ELSE <<>>
      FirstOf(seq) == \E k \in 1..Len(seq) :
                        /\ seq[k] = r
                        /\ Reg(r)
                        /\ \A j \in 1..(k - 1) : ~Reg(seq[j])
      cfgHit == \E k \in 1..Len(listed) : Reg(listed[k])
      convHit == \E k \in 1..Len(Conventional) : Reg(Conventional[k])
      scan == {q \in Paths : q \notin NonPy /\ d.files[q] \in markers}
  IN /\ cfgHit => FirstOf(listed)
     /\ (~cfgHit /\ convHit) => FirstOf(Conventional)
     /\ (~cfgHit /\ ~convHit /\ scan # {}) => r \in scan
     /\ (r = None) <=> (~cfgHit /\ ~convHit /\ scan = {})

ResolutionFollowsPriority ==
  /\ resolved.launcher \notin {Pending, Raised} =>
       InPriorityOrder(resolved.launcher, {"sq_main", "dq_main", "def_main"})
  /\ resolved.enhanced \notin {Pending, Raised} =>
       InPriorityOrder(resolved.enhanced, {"sq_main", "def_main"})

ConfigEntryBeatMainPy ==
  /\ fs[Cwd].cfg = CfgJson(JsonList(<<"src/start.py">>))
  /\ fs[Cwd].files["src/start.py"] = "plain"
  /\ fs[Cwd].files["main.py"] = "plain"
  /\ resolved.launcher = "src/start.py"
  /\ resolved.enhanced = "src/start.py"

\* C7: install_requirements and ensure_pyinstaller never raise, whatever the
\* state of .venv: no launcher dies with an exception in either step.
ProvisioningNeverRaises ==
  \A i \in Procs :
    procs[i].status = "crashed" =>
      procs[i].crashAt \notin {"install_requirements", "ensure_pyinstaller"}

\* C8: a launcher interrupted while the process it started is live first asks
\* that process to terminate gracefully, and does not end leaving it running.
InterruptTerminatesChild ==
  \A i \in Procs :
    (procs[i].status = "interrupted" /\ procs[i].liveAtInterrupt) =>
      /\ Len(procs[i].signals) > 0
      /\ procs[i].signals[1] = "terminate"
      /\ ~ChildLive(i)

ChildNeverRunsLauncher ==
  \A i \in Procs :
    (procs[i].env.child = "1" /\ procs[i].runs > 0) => procs[i].entry # LauncherName

====
